---- MODULE Spec2Model ----
(***************************************************************************)
(* Model of the artifact-build pipeline of src/main.rs: generate_artifacts *)
(* runs the external grammar generator and then compile_c_dynlib, which    *)
(* resolves the sources, builds the compiler command line and executes it. *)
(*                                                                         *)
(* Strings (String, &str, PathBuf, process arguments) are sequences of     *)
(* one-character strings, so that Path::join, Path::extension and format!  *)
(* are computed rather than assumed.  Byte streams captured from a child   *)
(* process are sequences of byte values.                                   *)
(***************************************************************************)
EXTENDS Integers, Sequences, FiniteSets, TLC

(* Longest captured output stream of a child process that is explored. *)
MaxStreamLen == 1

(* Byte values a captured stream is made of: an ASCII letter and a byte   *)
(* that is not valid UTF-8.                                               *)
Bytes == {65, 255}

(* Option<T>: None is the empty tuple, Some(x) a one-element tuple. *)
None == <<>>
Some(x) == <<x>>

(* ---- inputs of a run (the Build Request) ---- *)
GrammarPaths == {<<"g">>, <<"a">>}
ArtifactPaths == {<<"g">>, <<"a">>}
GrammarNames == {<<"j", "s">>}
Targets == {"x86_64-unknown-linux-gnu", "x86_64-pc-windows-msvc", "x86_64-pc-windows-gnu"}

SourceNames == {<<"p", "a", "r", "s", "e", "r", ".", "c">>, <<"s", "c", "a", "n", "n", "e", "r", ".", "c">>, <<"s", "c", "a", "n", "n", "e", "r", ".", "c", "c">>}

RECURSIVE SeqsUpTo(_)
SeqsUpTo(n) ==
    IF n = 0 THEN {<<>>}
    ELSE LET shorter == SeqsUpTo(n - 1)
         IN  shorter \cup {Append(s, b) : s \in {t \in shorter : Len(t) = n - 1}, b \in Bytes}
Streams == SeqsUpTo(MaxStreamLen)

VARIABLES
    pc,             \* position of the run in generate_artifacts / compile_c_dynlib
    args,           \* struct Args
    windows,        \* cfg!(windows): the platform the tool was built for
    files,          \* regular files on disk
    dirs,           \* directories on disk
    created,        \* directories this run's create_dir_all calls had to create
    src_dir, dst_dir, dst_name,                 \* parameters of compile_c_dynlib
    parser_path, library_path, scanner_path,    \* locals of compile_c_dynlib
    compiler,       \* executable the toolchain detection resolved
    command,        \* argument list of the compiler Command
    output,         \* std::process::Output last captured from the compiler
    result,         \* anyhow::Result of the run: None while running or Ok, else Some(message)
    procs           \* external processes started so far, in order

req == <<args, windows>>
fs == <<files, dirs, created>>
params == <<src_dir, dst_dir, dst_name>>
locals == <<parser_path, library_path, scanner_path, compiler, command>>
vars == <<pc, args, windows, files, dirs, created, src_dir, dst_dir, dst_name,
          parser_path, library_path, scanner_path, compiler, command, output,
          result, procs>>

(* ---- std::path ---- *)
MAIN_SEPARATOR == IF windows THEN "\\" ELSE "/"
is_separator(c) == c = "/" \/ (windows /\ c = "\\")

has_root(p) == Len(p) > 0 /\ is_separator(p[1])

(* Path::join: an absolute component replaces the base, otherwise it is   *)
(* appended after a separator unless the base already ends with one.      *)
join(base, comp) ==
    IF has_root(comp) THEN comp
    ELSE IF base = <<>> \/ is_separator(base[Len(base)]) THEN base \o comp
    ELSE base \o <<MAIN_SEPARATOR>> \o comp

(* Index of the last separator among the first i characters of p, or 0. *)
RECURSIVE last_separator(_, _)
last_separator(p, i) ==
    IF i = 0 THEN 0 ELSE IF is_separator(p[i]) THEN i ELSE last_separator(p, i - 1)

(* Index of the last dot among the first i characters of name, or 0. *)
RECURSIVE last_dot(_, _)
last_dot(name, i) ==
    IF i = 0 THEN 0 ELSE IF name[i] = "." THEN i ELSE last_dot(name, i - 1)

file_name(p) ==
    LET k == last_separator(p, Len(p))
    IN  IF k = Len(p) THEN None ELSE Some(SubSeq(p, k + 1, Len(p)))

(* Path::extension: the part of the file name after its last dot; None    *)
(* when there is no file name, no dot, or the only dot is the first char. *)
extension(p) ==
    IF file_name(p) = None THEN None
    ELSE LET name == file_name(p)[1]
             k == last_dot(name, Len(name))
         IN  IF name = <<".", ".">> \/ k <= 1 THEN None
             ELSE Some(SubSeq(name, k + 1, Len(name)))

is_file(p) == p \in files

Init ==
    /\ pc = "generate_artifacts"
    /\ args \in [grammar_path : GrammarPaths, artifact_path : ArtifactPaths,
                 grammar_name : GrammarNames, target : Targets]
    /\ windows \in BOOLEAN
    /\ \E present \in SUBSET SourceNames :
           files = {join(join(args.grammar_path, <<"s", "r", "c">>), n) : n \in present}
    /\ dirs \in {{}, {args.artifact_path}, {args.artifact_path, join(args.artifact_path, <<"c", "-", "d", "y", "n", "l", "i", "b">>)}}
    /\ created = {}
    /\ src_dir = <<>> /\ dst_dir = <<>> /\ dst_name = <<>>
    /\ parser_path = <<>> /\ library_path = <<>> /\ scanner_path = None
    /\ compiler = "" /\ command = <<>>
    /\ output = None
    /\ result = None
    /\ procs = <<>>

(* ---- std::fs ---- *)
parents(p) == {SubSeq(p, 1, k - 1) : k \in {i \in 2..Len(p) : is_separator(p[i])}}

(* create_dir_all(p): p and every missing parent exist afterwards. *)
create_dir_all(p) ==
    /\ dirs' = dirs \cup {p} \cup parents(p)
    /\ created' = created \cup (({p} \cup parents(p)) \ dirs)

(* ---- String::from_utf8_lossy ---- *)
REPLACEMENT_CHARACTER == "U+FFFD"
char(b) == IF b = 65 THEN "A" ELSE "?"
from_utf8_lossy(bytes) ==
    [i \in 1..Len(bytes) |-> IF bytes[i] < 128 THEN char(bytes[i]) ELSE REPLACEMENT_CHARACTER]

(* An attempt to run an external program: spawned is FALSE when the       *)
(* process could not be started, code is its exit code otherwise.         *)
Proc(program, spawned, code) == [program |-> program, spawned |-> spawned, code |-> code]
NotSpawned == 0 - 1
ExitCodes == {0, 1}

Fail(message) ==
    /\ pc' = "Err"
    /\ result' = Some(message)

(* ---- generate_artifacts ---- *)

(* std::fs::create_dir_all(&args.artifact_path)? *)
CreateArtifactDir ==
    /\ pc = "generate_artifacts"
    /\ \/ /\ Fail(<<"i", "o", " ", "e", "r", "r", "o", "r">>)
          /\ UNCHANGED fs
       \/ /\ create_dir_all(args.artifact_path)
          /\ pc' = "generate"
          /\ UNCHANGED <<files, result>>
    /\ UNCHANGED <<req, params, locals, output, procs>>

(* RunGenerator without the check of the generator's exit status. *)
RunGenerator_unchecked ==
    /\ pc = "generate"
    /\ \/ /\ procs' = Append(procs, Proc("tree-sitter", FALSE, NotSpawned))
          /\ Fail(<<"i", "o", " ", "e", "r", "r", "o", "r">>)
          /\ UNCHANGED files
       \/ \E written \in SUBSET SourceNames, code \in ExitCodes, stderr \in Streams :
             /\ procs' = Append(procs, Proc("tree-sitter", TRUE, code))
             /\ files' = files \cup {join(join(args.artifact_path, <<"s", "r", "c">>), n) : n \in written}
             /\ pc' = "compile_c_dynlib"
             /\ UNCHANGED result
    /\ UNCHANGED <<req, dirs, created, params, locals, output>>

(* Command::new("tree-sitter") ... .current_dir(&args.artifact_path)      *)
(* .output()? and the check of its exit status.  The generator is an      *)
(* external program: it writes any of its source files under src/ of its  *)
(* working directory and exits with any code and any stderr.              *)
RunGenerator ==
    /\ pc = "generate"
    /\ \/ /\ procs' = Append(procs, Proc("tree-sitter", FALSE, NotSpawned))
          /\ Fail(<<"i", "o", " ", "e", "r", "r", "o", "r">>)
          /\ UNCHANGED files
       \/ \E written \in SUBSET SourceNames, code \in ExitCodes, stderr \in Streams :
             /\ procs' = Append(procs, Proc("tree-sitter", TRUE, code))
             /\ files' = files \cup {join(join(args.artifact_path, <<"s", "r", "c">>), n) : n \in written}
             /\ IF code # 0
                THEN Fail(<<"F", "a", "i", "l", "e", "d", " ", "t", "o", " ", "r", "u", "n", " ", "\"", "t", "r", "e", "e", "-", "s", "i", "t", "t", "e", "r", " ", "g", "e", "n", "e", "r", "a", "t", "e", "\"", ":", " ">> \o from_utf8_lossy(stderr))
                ELSE /\ pc' = "compile_c_dynlib"
                     /\ UNCHANGED result
    /\ UNCHANGED <<req, dirs, created, params, locals, output>>

(* ---- compile_c_dynlib ---- *)

(* The call of compile_c_dynlib with its arguments, and its first         *)
(* statement std::fs::create_dir_all(dst_dir)?                            *)
CreateDstDir ==
    /\ pc = "compile_c_dynlib"
    /\ src_dir' = join(args.grammar_path, <<"s", "r", "c">>)
    /\ dst_dir' = join(args.artifact_path, <<"c", "-", "d", "y", "n", "l", "i", "b">>)
    /\ dst_name' = args.grammar_name \o <<".", "s", "o">>
    /\ \/ /\ Fail(<<"i", "o", " ", "e", "r", "r", "o", "r">>)
          /\ UNCHANGED fs
       \/ /\ create_dir_all(dst_dir')
          /\ pc' = "resolve"
          /\ UNCHANGED <<files, result>>
    /\ UNCHANGED <<req, locals, output, procs>>

(* resolve_scanner with the two dialects checked in the opposite order. *)
resolve_scanner_cpp_first(c_scanner, cpp_scanner) ==
    IF is_file(cpp_scanner) THEN Some(cpp_scanner)
    ELSE IF is_file(c_scanner) THEN Some(c_scanner)
    ELSE None

(* let scanner_path = if c_scanner.is_file() { .. } else if .. *)
resolve_scanner(c_scanner, cpp_scanner) ==
    IF is_file(c_scanner) THEN Some(c_scanner)
    ELSE IF is_file(cpp_scanner) THEN Some(cpp_scanner)
    ELSE None

ResolveSources ==
    /\ pc = "resolve"
    /\ parser_path' = join(src_dir, <<"p", "a", "r", "s", "e", "r", ".", "c">>)
    /\ library_path' = join(dst_dir, dst_name)
    /\ scanner_path' = resolve_scanner(join(src_dir, <<"s", "c", "a", "n", "n", "e", "r", ".", "c">>), join(src_dir, <<"s", "c", "a", "n", "n", "e", "r", ".", "c", "c">>))
    /\ pc' = "toolchain"
    /\ UNCHANGED <<req, fs, params, compiler, command, output, result, procs>>

(* cc::Build::new().cpp(true)...target(target).host(target).get_compiler() *)
(* resolves a C++ compiler driver for the triple, or aborts the process    *)
(* when it finds none.                                                     *)
get_compiler(target) ==
    IF target = "x86_64-pc-windows-msvc" THEN "cl.exe" ELSE "c++"

ResolveToolchain ==
    /\ pc = "toolchain"
    /\ \/ /\ Fail(<<"t", "o", "o", "l", "c", "h", "a", "i", "n">>)
          /\ UNCHANGED compiler
       \/ /\ compiler' = get_compiler(args.target)
          /\ pc' = "construct"
          /\ UNCHANGED result
    /\ UNCHANGED <<req, fs, params, parser_path, library_path, scanner_path,
                   command, output, procs>>

(* windows_args passing the C scanner path whether or not one was found. *)
windows_args_unconditional_scanner(header_path, parser, scanner, library) ==
    <<<<"/", "n", "o", "l", "o", "g", "o">>, <<"/", "L", "D">>, <<"/", "I">>, header_path, <<"/", "O", "2">>, parser>>
    \o (IF scanner # None THEN <<scanner[1]>> ELSE <<join(header_path, <<"s", "c", "a", "n", "n", "e", "r", ".", "c">>)>>)
    \o <<<<"/", "l", "i", "n", "k">>, <<"/", "o", "u", "t", ":">> \o library>>

(* The argument list of the cfg!(windows) branch. *)
windows_args(header_path, parser, scanner, library) ==
    <<<<"/", "n", "o", "l", "o", "g", "o">>, <<"/", "L", "D">>, <<"/", "I">>, header_path, <<"/", "O", "2">>, parser>>
    \o (IF scanner # None THEN <<scanner[1]>> ELSE <<>>)
    \o <<<<"/", "l", "i", "n", "k">>, <<"/", "o", "u", "t", ":">> \o library>>

(* posix_args without the test of the scanner's extension. *)
posix_args_any_scanner_as_c(header_path, parser, scanner, library) ==
    <<<<"-", "s", "h", "a", "r", "e", "d">>, <<"-", "f", "P", "I", "C">>, <<"-", "f", "n", "o", "-", "e", "x", "c", "e", "p", "t", "i", "o", "n", "s">>, <<"-", "g">>, <<"-", "I">>, header_path,
      <<"-", "o">>, library, <<"-", "O", "2">>>>
    \o (IF scanner # None THEN <<<<"-", "x", "c">>, <<"-", "s", "t", "d", "=", "c", "9", "9">>, scanner[1]>> ELSE <<>>)
    \o <<<<"-", "x", "c">>, parser>>

(* The argument list of the else branch. *)
posix_args(header_path, parser, scanner, library) ==
    <<<<"-", "s", "h", "a", "r", "e", "d">>, <<"-", "f", "P", "I", "C">>, <<"-", "f", "n", "o", "-", "e", "x", "c", "e", "p", "t", "i", "o", "n", "s">>, <<"-", "g">>, <<"-", "I">>, header_path,
      <<"-", "o">>, library, <<"-", "O", "2">>>>
    \o (IF scanner # None
        THEN IF extension(scanner[1]) = Some(<<"c">>)
             THEN <<<<"-", "x", "c">>, <<"-", "s", "t", "d", "=", "c", "9", "9">>, scanner[1]>>
             ELSE <<scanner[1]>>
        ELSE <<>>)
    \o <<<<"-", "x", "c">>, parser>>

ConstructCommand ==
    /\ pc = "construct"
    /\ command' = IF windows
                  THEN windows_args(src_dir, parser_path, scanner_path, library_path)
                  ELSE posix_args(src_dir, parser_path, scanner_path, library_path)
    /\ pc' = "execute"
    /\ UNCHANGED <<req, fs, params, parser_path, library_path, scanner_path,
                   compiler, output, result, procs>>

(* bail!("Parser compilation failed.\nStdout: {}\nStderr: {}", ..) *)
compilation_failed(out) ==
    <<"P", "a", "r", "s", "e", "r", " ", "c", "o", "m", "p", "i", "l", "a", "t", "i", "o", "n", " ", "f", "a", "i", "l", "e", "d", ".", "\n", "S", "t", "d", "o", "u", "t", ":", " ">> \o from_utf8_lossy(out.stdout)
    \o <<"\n", "S", "t", "d", "e", "r", "r", ":", " ">> \o from_utf8_lossy(out.stderr)

(* command.output().with_context(..)? followed by the check of            *)
(* output.status.success().  The compiler is an external program: it      *)
(* exits with any code and any captured streams; an exit code of zero     *)
(* leaves the library at the output path.                                 *)
run_command(next) ==
    /\ \/ /\ procs' = Append(procs, Proc(compiler, FALSE, NotSpawned))
          /\ Fail(<<"F", "a", "i", "l", "e", "d", " ", "t", "o", " ", "e", "x", "e", "c", "u", "t", "e", " ", "C", " ", "c", "o", "m", "p", "i", "l", "e", "r">>)
          /\ UNCHANGED <<files, output>>
       \/ \E code \in ExitCodes, stdout \in Streams, stderr \in Streams :
             /\ procs' = Append(procs, Proc(compiler, TRUE, code))
             /\ output' = Some([status |-> code, stdout |-> stdout, stderr |-> stderr])
             /\ files' = IF code = 0 THEN files \cup {library_path} ELSE files
             /\ IF code # 0
                THEN Fail(compilation_failed(output'[1]))
                ELSE /\ pc' = next
                     /\ UNCHANGED result
    /\ UNCHANGED <<req, dirs, created, params, locals>>

(* Execute with the first execution's exit status left unchecked. *)
Execute_unchecked ==
    /\ pc = "execute"
    /\ \/ /\ procs' = Append(procs, Proc(compiler, FALSE, NotSpawned))
          /\ Fail(<<"F", "a", "i", "l", "e", "d", " ", "t", "o", " ", "e", "x", "e", "c", "u", "t", "e", " ", "C", " ", "c", "o", "m", "p", "i", "l", "e", "r">>)
          /\ UNCHANGED <<files, output>>
       \/ \E code \in ExitCodes, stdout \in Streams, stderr \in Streams :
             /\ procs' = Append(procs, Proc(compiler, TRUE, code))
             /\ output' = Some([status |-> code, stdout |-> stdout, stderr |-> stderr])
             /\ files' = IF code = 0 THEN files \cup {library_path} ELSE files
             /\ pc' = "execute_again"
             /\ UNCHANGED result
    /\ UNCHANGED <<req, dirs, created, params, locals>>

(* The first command.output() and its check. *)
Execute ==
    /\ pc = "execute"
    /\ run_command("execute_again")

(* ExecuteAgain reporting the streams of the first execution when the     *)
(* second one fails.                                                      *)
ExecuteAgain_first_output ==
    /\ pc = "execute_again"
    /\ \/ /\ procs' = Append(procs, Proc(compiler, FALSE, NotSpawned))
          /\ Fail(<<"F", "a", "i", "l", "e", "d", " ", "t", "o", " ", "e", "x", "e", "c", "u", "t", "e", " ", "C", " ", "c", "o", "m", "p", "i", "l", "e", "r">>)
          /\ UNCHANGED <<files, output>>
       \/ \E code \in ExitCodes, stdout \in Streams, stderr \in Streams :
             /\ procs' = Append(procs, Proc(compiler, TRUE, code))
             /\ output' = Some([status |-> code, stdout |-> stdout, stderr |-> stderr])
             /\ files' = IF code = 0 THEN files \cup {library_path} ELSE files
             /\ IF code # 0
                THEN Fail(compilation_failed(output[1]))
                ELSE /\ pc' = "Ok"
                     /\ UNCHANGED result
    /\ UNCHANGED <<req, dirs, created, params, locals>>

(* The second command.output() of the same command and its check; the     *)
(* function then returns Ok(()).                                          *)
ExecuteAgain ==
    /\ pc = "execute_again"
    /\ run_command("Ok")

Next ==
    \/ CreateArtifactDir
    \/ RunGenerator
    \/ CreateDstDir
    \/ ResolveSources
    \/ ResolveToolchain
    \/ ConstructCommand
    \/ Execute
    \/ ExecuteAgain

Spec == Init /\ [][Next]_vars

TypeOK ==
    /\ pc \in {"generate_artifacts", "generate", "compile_c_dynlib", "resolve",
               "toolchain", "construct", "execute", "execute_again", "Ok", "Err"}
    /\ (pc = "Err") <=> (result # None)

(***************************************************************************)
(* Properties                                                              *)
(***************************************************************************)
Range(s) == {s[i] : i \in DOMAIN s}
Occurrences(s, x) == Cardinality({i \in DOMAIN s : s[i] = x})

IsGenerator(p) == p.program = "tree-sitter"
IsCompiler(p) == p.program # "tree-sitter"
Failed(p) == ~p.spawned \/ p.code # 0
CompilerAttempts == {i \in DOMAIN procs : IsCompiler(procs[i])}
CompilerExecutions == {i \in CompilerAttempts : procs[i].spawned}

c_scanner == join(src_dir, <<"s", "c", "a", "n", "n", "e", "r", ".", "c">>)
cpp_scanner == join(src_dir, <<"s", "c", "a", "n", "n", "e", "r", ".", "c", "c">>)
Constructed == command # <<>>

(* C1: when the generator exits non-zero the run has failed, no compiler  *)
(* is ever invoked and the run has not created <artifact path>/c-dynlib   *)
(* (the builder never starts).                                            *)
C1_GeneratorFailureAborts ==
    \A i \in DOMAIN procs :
        (IsGenerator(procs[i]) /\ procs[i].spawned /\ procs[i].code # 0) =>
            /\ pc = "Err"
            /\ result # None
            /\ CompilerAttempts = {}
            /\ dst_dir = <<>>
            /\ join(args.artifact_path, <<"c", "-", "d", "y", "n", "l", "i", "b">>) \notin created

C1_Witness ==
    /\ pc = "Err"
    /\ Len(procs) = 1
    /\ IsGenerator(procs[1]) /\ procs[1].spawned /\ procs[1].code = 1
    /\ args.artifact_path \in created

(* C2: the compiler command is executed at most once in a run. *)
C2_SingleExecution == Cardinality(CompilerExecutions) <= 1

(* C3: the compiler is never invoked while <source dir>/parser.c is       *)
(* absent.                                                                *)
C3_NoCompileWithoutParser ==
    CompilerAttempts # {} => is_file(parser_path)

(* C4: the directory the builder reads its sources from is the directory  *)
(* the generator populates, <artifact path>/src.                          *)
C4_SourceDirIsGeneratorOutput ==
    src_dir # <<>> => src_dir = join(args.artifact_path, <<"s", "r", "c">>)

(* C5: scanner.c is selected whenever it exists, scanner.cc only when     *)
(* scanner.c is absent and scanner.cc exists, nothing when neither        *)
(* exists; the argument list never holds both scanner paths.              *)
C5_ScannerPrecedence ==
    pc \in {"toolchain", "construct", "execute", "execute_again", "Ok"} =>
        /\ is_file(c_scanner) => scanner_path = Some(c_scanner)
        /\ (~is_file(c_scanner) /\ is_file(cpp_scanner)) => scanner_path = Some(cpp_scanner)
        /\ (~is_file(c_scanner) /\ ~is_file(cpp_scanner)) => scanner_path = None
        /\ ~(c_scanner \in Range(command) /\ cpp_scanner \in Range(command))

C5_Witness ==
    /\ Constructed
    /\ is_file(c_scanner) /\ is_file(cpp_scanner)
    /\ scanner_path = Some(c_scanner)
    /\ c_scanner \in Range(command)

(* C6: with parser.c present and no scanner file, the argument list of    *)
(* either convention holds the parser path exactly once and no scanner    *)
(* path.                                                                  *)
C6_ParserOnceNoScanner ==
    (Constructed /\ is_file(parser_path) /\ ~is_file(c_scanner) /\ ~is_file(cpp_scanner)) =>
        /\ Occurrences(command, parser_path) = 1
        /\ c_scanner \notin Range(command)
        /\ cpp_scanner \notin Range(command)

C6_Witness ==
    /\ Constructed /\ ~windows
    /\ is_file(parser_path) /\ ~is_file(c_scanner) /\ ~is_file(cpp_scanner)
    /\ Occurrences(command, parser_path) = 1

(* C7: POSIX convention.  A selected scanner.c is passed as the run       *)
(* -xc, -std=c99, <scanner> before the parser path; a selected scanner.cc *)
(* has no -xc or -std=c99 before it; with a scanner of either dialect the *)
(* parser path is the last argument and -xc is right before it.           *)
C7_PosixDialectFlags ==
    (Constructed /\ ~windows /\ scanner_path # None) =>
        LET n == Len(command)
            CFlags == {<<"-", "x", "c">>, <<"-", "s", "t", "d", "=", "c", "9", "9">>}
        IN  /\ n >= 2
            /\ command[n] = parser_path
            /\ command[n - 1] = <<"-", "x", "c">>
            /\ scanner_path = Some(c_scanner) =>
                  \E i \in 1..(n - 2) :
                      /\ command[i] = <<"-", "x", "c">>
                      /\ command[i + 1] = <<"-", "s", "t", "d", "=", "c", "9", "9">>
                      /\ command[i + 2] = c_scanner
                      /\ \A k \in 1..n : command[k] = parser_path => i + 2 < k
            /\ scanner_path = Some(cpp_scanner) =>
                  /\ cpp_scanner \in Range(command)
                  /\ \A i \in 1..n : command[i] = cpp_scanner =>
                         \A k \in 1..(i - 1) : command[k] \notin CFlags

C7_Witness ==
    /\ Constructed /\ ~windows
    /\ scanner_path = Some(cpp_scanner)
    /\ command[Len(command) - 2] = cpp_scanner
    /\ command[Len(command)] = parser_path

(* C8: a compiler execution that exits non-zero ends the run with an      *)
(* error whose message carries the stdout and the stderr captured from    *)
(* that very execution.                                                   *)
C8_CompilerFailureCarriesStreams ==
    \A i \in CompilerExecutions :
        procs[i].code # 0 =>
            /\ i = Len(procs)
            /\ pc = "Err"
            /\ output # None
            /\ output[1].status = procs[i].code
            /\ result = Some(<<"P", "a", "r", "s", "e", "r", " ", "c", "o", "m", "p", "i", "l", "a", "t", "i", "o", "n", " ", "f", "a", "i", "l", "e", "d", ".", "\n", "S", "t", "d", "o", "u", "t", ":", " ">>
                             \o from_utf8_lossy(output[1].stdout)
                             \o <<"\n", "S", "t", "d", "e", "r", "r", ":", " ">>
                             \o from_utf8_lossy(output[1].stderr))

C8_Witness ==
    /\ pc = "Err"
    /\ Cardinality(CompilerExecutions) = 2
    /\ procs[Len(procs)].code = 1
    /\ output # None /\ output[1].stdout = <<65>> /\ output[1].stderr = <<255>>
    /\ result = Some(<<"P", "a", "r", "s", "e", "r", " ", "c", "o", "m", "p", "i", "l", "a", "t", "i", "o", "n", " ", "f", "a", "i", "l", "e", "d", ".", "\n", "S", "t", "d", "o", "u", "t", ":", " ", "A", "\n", "S", "t", "d", "e", "r", "r", ":", " ">> \o <<REPLACEMENT_CHARACTER>>)

(* C9: a failed external step (non-zero exit or spawn failure) is the     *)
(* last one of the run and the run is in its failed state; a second       *)
(* compiler execution only follows a first that exited zero; the run      *)
(* succeeds only if every compiler execution exited zero.                 *)
C9_FailFast ==
    /\ \A i \in DOMAIN procs : Failed(procs[i]) => (i = Len(procs) /\ pc = "Err")
    /\ \A i, j \in CompilerAttempts : i < j => (procs[i].spawned /\ procs[i].code = 0)
    /\ pc = "Ok" => \A i \in CompilerAttempts : procs[i].spawned /\ procs[i].code = 0

C9_Witness ==
    /\ pc = "Err"
    /\ Cardinality(CompilerAttempts) = 1
    /\ Failed(procs[Len(procs)])
    /\ IsCompiler(procs[Len(procs)])

(* C10: a Windows target gets the Windows-style argument list and any     *)
(* other target the POSIX-style list, whatever platform the tool was      *)
(* built for.                                                             *)
IsWindowsTarget(target) == target \in {"x86_64-pc-windows-msvc", "x86_64-pc-windows-gnu"}
C10_DialectFollowsTarget ==
    Constructed => (IsWindowsTarget(args.target) <=> command[1] = <<"/", "n", "o", "l", "o", "g", "o">>)
====
